---- MODULE Spec2Model ----
(***************************************************************************)
(* Range finder health gating of the ECL estimator: the class              *)
(* SensorRangeFinder of src/EKF/SensorRangeFinder.hpp.                      *)
(*                                                                         *)
(* Units of the model (floats are kept as fixed-point integers):           *)
(*   time      microseconds, as the uint64_t timestamps of the class       *)
(*   distance  centimetres   (0.5 m = 50, 30 m = 3000, 0.1 m = 10)          *)
(*   cosine    1/10000       (1.0 = 10000, 0.7071 = 7071)                   *)
(*   angle     1e-7 rad      (FLT_EPSILON = 1.19e-7 rad: a difference of    *)
(*             whole units exceeds it iff it exceeds 1 unit)               *)
(*                                                                         *)
(* The header declares runChecks, updateRangeDataValidity,                 *)
(* updateRangeDataContinuity, updateRangeDataStuck, canBeusedAsFailover    *)
(* and canResetOnSensor without their bodies; these are modelled from      *)
(* sections 4.2 to 4.6 of the design description.                          *)
(***************************************************************************)
EXTENDS Integers, Sequences, FiniteSets, TLC

VARIABLES
    newest_sample,                 \* rangeSample _newest_sample
    range_sample_delayed,          \* rangeSample _range_sample_delayed
    range_data_ready,              \* bool _range_data_ready
    rng_hgt_valid,                 \* bool _rng_hgt_valid
    is_stuck,                      \* bool _is_stuck
    dt_last_range_update_filt_us,  \* float _dt_last_range_update_filt_us
    time_last_rng_ready,           \* uint64_t _time_last_rng_ready
    time_bad_rng_signal_quality,   \* uint64_t _time_bad_rng_signal_quality
    rng_stuck_min_val,             \* float _rng_stuck_min_val
    rng_stuck_max_val,             \* float _rng_stuck_max_val
    tilt,                          \* float _tilt
    sin_tilt_rng,                  \* float _sin_tilt_rng
    cos_tilt_rng,                  \* float _cos_tilt_rng
    R_rng_to_earth_2_2,            \* float _R_rng_to_earth_2_2
    rng_valid_min_val,             \* float _rng_valid_min_val
    rng_valid_max_val,             \* float _rng_valid_max_val
    range_cos_max_tilt,            \* float _range_cos_max_tilt
    \* ---- observation of the caller (history, not read by the class) ----
    now,                           \* time passed to the last runChecks
    lastOp,                        \* name of the last public call
    nChecks,                       \* number of runChecks calls so far
    cfgTilt,                       \* angle of the last setTilt call, -1 if none
    lastArg,                       \* arguments of the last public call
    streak,                        \* readings accepted by every runChecks so far
    badSince,                      \* first runChecks of the zero-quality run, -1 if none
    goodAt,                        \* last runChecks with non-zero quality, 0 if none
    dropout                        \* not-ready runChecks calls in a row, one cycle apart

sensor ==
    << newest_sample, range_sample_delayed, range_data_ready, rng_hgt_valid,
       is_stuck, dt_last_range_update_filt_us, time_last_rng_ready,
       time_bad_rng_signal_quality, rng_stuck_min_val, rng_stuck_max_val,
       tilt, sin_tilt_rng, cos_tilt_rng, R_rng_to_earth_2_2,
       rng_valid_min_val, rng_valid_max_val, range_cos_max_tilt >>

caller == << now, lastOp, lastArg, nChecks, cfgTilt, streak, badSince, goodAt, dropout >>

vars == << sensor, caller >>

----------------------------------------------------------------------------
(* Bounds of the model *)

MaxChecks == 2

MaxGateChecks == 2

MaxStuckChecks == 6

MaxDropoutChecks == 225

MaxDeliverChecks == 2

----------------------------------------------------------------------------
(* Constants of the class *)

CosScale == 10000

FltEpsilon == 1

ContinuityLimitUs == 2000000

DtUpdateUs == 10000

RangeCosMaxTiltDefault == 7071

\* slip: 0.01f
RangeStuckThreshold_cm == 1

\* slip: 1.0f
RangeStuckThreshold_m == 100

RangeStuckThreshold == 10

\* slip: the duration in seconds
RangeSignalHysteresisMs_s == 1

RangeSignalHysteresisMs == 1000

UsPerMs == 1000

\* section 4.6 and design note 5: the margin of the failover gate is left to
\* the implementer; 0.1 m here
FailoverMargin == 10

FiltAlphaNum == 1

FiltAlphaDen == 2

----------------------------------------------------------------------------
(* Inputs *)

Distances == {40, 500, 505, 510, 530, 3100}

Qualities == {0, 100}

TiltAngles == {0, 5235988}

\* 30 degrees
Tilt30 == CHOOSE a \in TiltAngles : a # 0

\* setTilt(0, 0.7071) and setTilt(30 degrees, 0.8660)
TiltConfigs == {<<0, 7071>>, <<Tilt30, 8660>>}

Limits == {<<50, 3000>>}

\* R_to_earth(2,0) and R_to_earth(2,2): level, and pitched by 30 degrees
Rotations == {[r20 |-> 0, r22 |-> 10000], [r20 |-> 5000, r22 |-> 8660]}

LevelRotation == [r20 |-> 0, r22 |-> 10000]

SampleCadenceUs == 10 * DtUpdateUs

\* the sample cadence, the hysteresis duration, a gap in the data
TimeSteps == {SampleCadenceUs, 1000000, 4000000}

Samples(ts, ds, qs) == [time_us : ts, rng : ds, quality : qs]

\* no reading yet / some runChecks call accepted no reading
NoStreak == [n |-> 0, lo |-> 0, hi |-> 0]

BrokenStreak == [n |-> -1, lo |-> 0, hi |-> 0]

ZeroSample == [time_us |-> 0, rng |-> 0, quality |-> 0]

\* sinf and cosf on the angles of TiltAngles
sinf(a) == IF a = Tilt30 THEN 5000 ELSE 0

cosf(a) == IF a = Tilt30 THEN 8660 ELSE 10000

fabsf(x) == IF x < 0 THEN -x ELSE x

Min2(a, b) == IF a < b THEN a ELSE b

Max2(a, b) == IF a > b THEN a ELSE b

----------------------------------------------------------------------------
(* Predicates of the public interface *)

\* slip: the combined flag of isNewHealthyData
isHealthy_withReady == range_data_ready /\ rng_hgt_valid

\* slip: the wrong flag
isHealthy_ready == range_data_ready

isHealthy == rng_hgt_valid

\* slip: the ready flag left out
isNewHealthyData_valid == rng_hgt_valid

isNewHealthyData == range_data_ready /\ rng_hgt_valid

isDelayedHealthyData == range_data_ready /\ rng_hgt_valid

isStuck == is_stuck

\* slip: non-strict comparison
isTiltOk_orEqual == R_rng_to_earth_2_2 >= range_cos_max_tilt

isTiltOk == R_rng_to_earth_2_2 > range_cos_max_tilt

\* slip: non-strict comparison
isRangeDataContinuous_orEqual == dt_last_range_update_filt_us <= ContinuityLimitUs

isRangeDataContinuous == dt_last_range_update_filt_us < ContinuityLimitUs

\* slip: the distance of the other slot
getDelayedRng_newest == newest_sample.rng

getDelayedRng == range_sample_delayed.rng

\* the sample read through the pointer getSampleDelayedAddress() returns
getSampleDelayedAddress == range_sample_delayed

getRToEarth == R_rng_to_earth_2_2

\* the conversion of the float limit to the bool the getters return
getValidMinVal == rng_valid_min_val # 0

getValidMaxVal == rng_valid_max_val # 0

\* section 3: min distance <= delayed distance <= max distance
isDelayedDataInRange ==
    /\ range_sample_delayed.rng >= rng_valid_min_val
    /\ range_sample_delayed.rng <= rng_valid_max_val

\* section 4.6: healthy, tilt acceptable, delayed distance inside the bounds
\* with a margin
canBeusedAsFailover ==
    /\ isHealthy
    /\ isTiltOk
    /\ range_sample_delayed.rng >= rng_valid_min_val + FailoverMargin
    /\ range_sample_delayed.rng <= rng_valid_max_val - FailoverMargin

\* slip: the stuck flag left out
canResetOnSensor_noStuck == rng_hgt_valid /\ isRangeDataContinuous

\* section 4.6: validity, continuity and not stuck
canResetOnSensor == rng_hgt_valid /\ isRangeDataContinuous /\ ~is_stuck

----------------------------------------------------------------------------
(* Construction *)

Init ==
    /\ newest_sample = ZeroSample
    /\ range_sample_delayed = ZeroSample
    /\ range_data_ready = FALSE
    /\ rng_hgt_valid = FALSE
    /\ is_stuck = FALSE
    /\ dt_last_range_update_filt_us = 0
    /\ time_last_rng_ready = 0
    /\ time_bad_rng_signal_quality = 0
    /\ rng_stuck_min_val = 0
    /\ rng_stuck_max_val = 0
    /\ tilt = 0
    /\ sin_tilt_rng = 0
    /\ cos_tilt_rng = 0
    /\ R_rng_to_earth_2_2 = 0
    /\ rng_valid_min_val = 0
    /\ rng_valid_max_val = 0
    /\ range_cos_max_tilt = RangeCosMaxTiltDefault
    /\ now = 0
    /\ lastOp = "init"
    /\ nChecks = 0
    /\ cfgTilt = -1
    /\ lastArg = << >>
    /\ streak = NoStreak
    /\ badSince = -1
    /\ goodAt = 0
    /\ dropout = 0

----------------------------------------------------------------------------
(* Setters *)

setNewestSample(sample) ==
    /\ newest_sample' = sample
    /\ lastOp' = "setNewestSample"
    /\ lastArg' = << sample >>
    /\ UNCHANGED << range_sample_delayed, range_data_ready, rng_hgt_valid,
                    is_stuck, dt_last_range_update_filt_us, time_last_rng_ready,
                    time_bad_rng_signal_quality, rng_stuck_min_val,
                    rng_stuck_max_val, tilt, sin_tilt_rng, cos_tilt_rng,
                    R_rng_to_earth_2_2, rng_valid_min_val, rng_valid_max_val,
                    range_cos_max_tilt, now, nChecks, cfgTilt, streak, badSince, goodAt, dropout >>

\* slip: the ready flag is not set
setDelayedSample_noReady(sample) ==
    /\ range_sample_delayed' = sample
    /\ lastOp' = "setDelayedSample"
    /\ lastArg' = << sample >>
    /\ UNCHANGED << newest_sample, rng_hgt_valid, range_data_ready,
                    is_stuck, dt_last_range_update_filt_us, time_last_rng_ready,
                    time_bad_rng_signal_quality, rng_stuck_min_val,
                    rng_stuck_max_val, tilt, sin_tilt_rng, cos_tilt_rng,
                    R_rng_to_earth_2_2, rng_valid_min_val, rng_valid_max_val,
                    range_cos_max_tilt, now, nChecks, cfgTilt, streak, badSince, goodAt, dropout >>

setDelayedSample(sample) ==
    /\ range_sample_delayed' = sample
    /\ range_data_ready' = TRUE
    /\ lastOp' = "setDelayedSample"
    /\ lastArg' = << sample >>
    /\ UNCHANGED << newest_sample, rng_hgt_valid,
                    is_stuck, dt_last_range_update_filt_us, time_last_rng_ready,
                    time_bad_rng_signal_quality, rng_stuck_min_val,
                    rng_stuck_max_val, tilt, sin_tilt_rng, cos_tilt_rng,
                    R_rng_to_earth_2_2, rng_valid_min_val, rng_valid_max_val,
                    range_cos_max_tilt, now, nChecks, cfgTilt, streak, badSince, goodAt, dropout >>

\* _tilt is compared but never assigned
setTilt(new_tilt, cos_max_tilt) ==
    /\ IF fabsf(tilt - new_tilt) > FltEpsilon
          THEN /\ sin_tilt_rng' = sinf(new_tilt)
               /\ cos_tilt_rng' = cosf(new_tilt)
          ELSE UNCHANGED << sin_tilt_rng, cos_tilt_rng >>
    /\ range_cos_max_tilt' = cos_max_tilt
    /\ cfgTilt' = new_tilt
    /\ lastOp' = "setTilt"
    /\ lastArg' = << new_tilt, cos_max_tilt >>
    /\ UNCHANGED << newest_sample, range_sample_delayed, range_data_ready,
                    rng_hgt_valid, is_stuck, dt_last_range_update_filt_us,
                    time_last_rng_ready, time_bad_rng_signal_quality,
                    rng_stuck_min_val, rng_stuck_max_val, tilt,
                    R_rng_to_earth_2_2, rng_valid_min_val, rng_valid_max_val,
                    now, nChecks, streak, badSince, goodAt, dropout >>

setLimits(min_distance, max_distance) ==
    /\ rng_valid_min_val' = min_distance
    /\ rng_valid_max_val' = max_distance
    /\ lastOp' = "setLimits"
    /\ lastArg' = << min_distance, max_distance >>
    /\ UNCHANGED << newest_sample, range_sample_delayed, range_data_ready,
                    rng_hgt_valid, is_stuck, dt_last_range_update_filt_us,
                    time_last_rng_ready, time_bad_rng_signal_quality,
                    rng_stuck_min_val, rng_stuck_max_val, tilt, sin_tilt_rng,
                    cos_tilt_rng, R_rng_to_earth_2_2, range_cos_max_tilt,
                    now, nChecks, cfgTilt, streak, badSince, goodAt, dropout >>

\* slip: the whole slot is rewritten
setDelayedRng_wholeSample(rng) ==
    /\ range_sample_delayed' = [ZeroSample EXCEPT !.rng = rng]
    /\ lastOp' = "setDelayedRng"
    /\ lastArg' = << rng >>
    /\ UNCHANGED << newest_sample, range_data_ready,
                    rng_hgt_valid, is_stuck, dt_last_range_update_filt_us,
                    time_last_rng_ready, time_bad_rng_signal_quality,
                    rng_stuck_min_val, rng_stuck_max_val, tilt, sin_tilt_rng,
                    cos_tilt_rng, R_rng_to_earth_2_2, rng_valid_min_val,
                    rng_valid_max_val, range_cos_max_tilt,
                    now, nChecks, cfgTilt, streak, badSince, goodAt, dropout >>

setDelayedRng(rng) ==
    /\ range_sample_delayed' = [range_sample_delayed EXCEPT !.rng = rng]
    /\ lastOp' = "setDelayedRng"
    /\ lastArg' = << rng >>
    /\ UNCHANGED << newest_sample, range_data_ready,
                    rng_hgt_valid, is_stuck, dt_last_range_update_filt_us,
                    time_last_rng_ready, time_bad_rng_signal_quality,
                    rng_stuck_min_val, rng_stuck_max_val, tilt, sin_tilt_rng,
                    cos_tilt_rng, R_rng_to_earth_2_2, rng_valid_min_val,
                    rng_valid_max_val, range_cos_max_tilt,
                    now, nChecks, cfgTilt, streak, badSince, goodAt, dropout >>

\* slip: clearing the ready flag clears the validity flag too
setDataReadiness_andValidity(is_ready) ==
    /\ range_data_ready' = is_ready
    /\ rng_hgt_valid' = (rng_hgt_valid /\ is_ready)
    /\ lastOp' = "setDataReadiness"
    /\ lastArg' = << is_ready >>
    /\ UNCHANGED << newest_sample, range_sample_delayed,
                    is_stuck, dt_last_range_update_filt_us, time_last_rng_ready,
                    time_bad_rng_signal_quality, rng_stuck_min_val,
                    rng_stuck_max_val, tilt, sin_tilt_rng,
                    cos_tilt_rng, R_rng_to_earth_2_2, rng_valid_min_val,
                    rng_valid_max_val, range_cos_max_tilt,
                    now, nChecks, cfgTilt, streak, badSince, goodAt, dropout >>

setDataReadiness(is_ready) ==
    /\ range_data_ready' = is_ready
    /\ lastOp' = "setDataReadiness"
    /\ lastArg' = << is_ready >>
    /\ UNCHANGED << newest_sample, range_sample_delayed,
                    rng_hgt_valid, is_stuck, dt_last_range_update_filt_us,
                    time_last_rng_ready, time_bad_rng_signal_quality,
                    rng_stuck_min_val, rng_stuck_max_val, tilt, sin_tilt_rng,
                    cos_tilt_rng, R_rng_to_earth_2_2, rng_valid_min_val,
                    rng_valid_max_val, range_cos_max_tilt,
                    now, nChecks, cfgTilt, streak, badSince, goodAt, dropout >>

\* slip: the ready flag follows the validity flag
setValidity_andReady(is_valid) ==
    /\ rng_hgt_valid' = is_valid
    /\ range_data_ready' = is_valid
    /\ lastOp' = "setValidity"
    /\ lastArg' = << is_valid >>
    /\ UNCHANGED << newest_sample, range_sample_delayed,
                    is_stuck, dt_last_range_update_filt_us,
                    time_last_rng_ready, time_bad_rng_signal_quality,
                    rng_stuck_min_val, rng_stuck_max_val, tilt, sin_tilt_rng,
                    cos_tilt_rng, R_rng_to_earth_2_2, rng_valid_min_val,
                    rng_valid_max_val, range_cos_max_tilt,
                    now, nChecks, cfgTilt, streak, badSince, goodAt, dropout >>

setValidity(is_valid) ==
    /\ rng_hgt_valid' = is_valid
    /\ lastOp' = "setValidity"
    /\ lastArg' = << is_valid >>
    /\ UNCHANGED << newest_sample, range_sample_delayed, range_data_ready,
                    is_stuck, dt_last_range_update_filt_us,
                    time_last_rng_ready, time_bad_rng_signal_quality,
                    rng_stuck_min_val, rng_stuck_max_val, tilt, sin_tilt_rng,
                    cos_tilt_rng, R_rng_to_earth_2_2, rng_valid_min_val,
                    rng_valid_max_val, range_cos_max_tilt,
                    now, nChecks, cfgTilt, streak, badSince, goodAt, dropout >>

\* a write of the caller through the pointer getSampleDelayedAddress() returns
writeSampleDelayed(sample) ==
    /\ range_sample_delayed' = sample
    /\ lastOp' = "writeSampleDelayed"
    /\ lastArg' = << sample >>
    /\ UNCHANGED << newest_sample, range_data_ready,
                    rng_hgt_valid, is_stuck, dt_last_range_update_filt_us,
                    time_last_rng_ready, time_bad_rng_signal_quality,
                    rng_stuck_min_val, rng_stuck_max_val, tilt, sin_tilt_rng,
                    cos_tilt_rng, R_rng_to_earth_2_2, rng_valid_min_val,
                    rng_valid_max_val, range_cos_max_tilt,
                    now, nChecks, cfgTilt, streak, badSince, goodAt, dropout >>

----------------------------------------------------------------------------
(* runChecks and the private updates it calls *)

\* section 4.2: effective cosine from two matrix components and the cached
\* sine and cosine of the mounting tilt
SensorToEarth(R) ==
    (R.r20 * sin_tilt_rng + R.r22 * cos_tilt_rng) \div CosScale

\* section 4.3: first-order low-pass blend of the previous value and the
\* raw interval
LowPass(prev, raw) ==
    (prev * (FiltAlphaDen - FiltAlphaNum) + raw * FiltAlphaNum) \div FiltAlphaDen

\* section 4.3
updateRangeDataContinuity(time_delayed_us) ==
    IF range_data_ready
       THEN /\ dt_last_range_update_filt_us' =
                  LowPass(dt_last_range_update_filt_us,
                          time_delayed_us - time_last_rng_ready)
            /\ time_last_rng_ready' = time_delayed_us
       ELSE /\ dt_last_range_update_filt_us' =
                  dt_last_range_update_filt_us + DtUpdateUs
            /\ UNCHANGED time_last_rng_ready

\* slip: the reset moves the lower end of the window only
updateRangeDataStuck_minOnly ==
    LET rng == range_sample_delayed.rng
        lo  == Min2(rng_stuck_min_val, rng)
        hi  == Max2(rng_stuck_max_val, rng)
    IN  IF hi - lo > RangeStuckThreshold
           THEN /\ rng_stuck_min_val' = rng
                /\ rng_stuck_max_val' = rng_stuck_max_val
                /\ is_stuck' = FALSE
           ELSE /\ rng_stuck_min_val' = lo
                /\ rng_stuck_max_val' = hi
                /\ is_stuck' = IF hi - lo < RangeStuckThreshold
                                  THEN TRUE ELSE is_stuck

\* section 4.4: widen the window with the reading; reset it to the reading
\* when the spread exceeds the threshold, declare stuck while it stays below
updateRangeDataStuck ==
    LET rng == range_sample_delayed.rng
        lo  == Min2(rng_stuck_min_val, rng)
        hi  == Max2(rng_stuck_max_val, rng)
    IN  IF hi - lo > RangeStuckThreshold
           THEN /\ rng_stuck_min_val' = rng
                /\ rng_stuck_max_val' = rng
                /\ is_stuck' = FALSE
           ELSE /\ rng_stuck_min_val' = lo
                /\ rng_stuck_max_val' = hi
                /\ is_stuck' = IF hi - lo < RangeStuckThreshold
                                  THEN TRUE ELSE is_stuck

\* section 4.5: the timer follows the current time while quality is
\* non-zero; zero quality fails once it is the hysteresis duration old
QualityOk(time_delayed_us) ==
    \/ newest_sample.quality # 0
    \/ time_delayed_us - time_bad_rng_signal_quality
          < RangeSignalHysteresisMs * UsPerMs

\* slip: a failed tilt check returns before the other updates
updateRangeDataValidity_tiltFirst(time_delayed_us) ==
    IF ~isTiltOk'
       THEN /\ rng_hgt_valid' = FALSE
            /\ UNCHANGED << dt_last_range_update_filt_us, time_last_rng_ready,
                            rng_stuck_min_val, rng_stuck_max_val, is_stuck,
                            time_bad_rng_signal_quality >>
       ELSE /\ updateRangeDataContinuity(time_delayed_us)
            /\ IF range_data_ready /\ isDelayedDataInRange
                  THEN updateRangeDataStuck
                  ELSE UNCHANGED << rng_stuck_min_val, rng_stuck_max_val, is_stuck >>
            /\ time_bad_rng_signal_quality' =
                  IF newest_sample.quality # 0
                     THEN time_delayed_us ELSE time_bad_rng_signal_quality
            /\ rng_hgt_valid' = ( /\ isDelayedDataInRange
                                  /\ isRangeDataContinuous'
                                  /\ ~is_stuck'
                                  /\ QualityOk(time_delayed_us) )

\* slip: the stuck detector runs on the old reading when no sample is ready
updateRangeDataValidity_stuckEveryCycle(time_delayed_us) ==
    /\ updateRangeDataContinuity(time_delayed_us)
    /\ IF isDelayedDataInRange
          THEN updateRangeDataStuck
          ELSE UNCHANGED << rng_stuck_min_val, rng_stuck_max_val, is_stuck >>
    /\ time_bad_rng_signal_quality' =
          IF newest_sample.quality # 0
             THEN time_delayed_us ELSE time_bad_rng_signal_quality
    /\ rng_hgt_valid' = ( /\ isDelayedDataInRange
                          /\ isTiltOk'
                          /\ isRangeDataContinuous'
                          /\ ~is_stuck'
                          /\ QualityOk(time_delayed_us) )

\* section 4.6, steps 2 to 5
updateRangeDataValidity(time_delayed_us) ==
    /\ updateRangeDataContinuity(time_delayed_us)
    /\ IF range_data_ready /\ isDelayedDataInRange
          THEN updateRangeDataStuck
          ELSE UNCHANGED << rng_stuck_min_val, rng_stuck_max_val, is_stuck >>
    /\ time_bad_rng_signal_quality' =
          IF newest_sample.quality # 0
             THEN time_delayed_us ELSE time_bad_rng_signal_quality
    /\ rng_hgt_valid' = ( /\ isDelayedDataInRange
                          /\ isTiltOk'
                          /\ isRangeDataContinuous'
                          /\ ~is_stuck'
                          /\ QualityOk(time_delayed_us) )

\* what the caller has seen of the readings, the quality and the cadence
observe(time_delayed_us) ==
    /\ streak' =
          IF streak.n = -1 THEN streak
          ELSE IF range_data_ready /\ isDelayedDataInRange
             THEN IF streak.n = 0
                     THEN [n |-> 1, lo |-> range_sample_delayed.rng,
                           hi |-> range_sample_delayed.rng]
                     ELSE [n |-> streak.n + 1,
                           lo |-> Min2(streak.lo, range_sample_delayed.rng),
                           hi |-> Max2(streak.hi, range_sample_delayed.rng)]
             ELSE BrokenStreak
    /\ badSince' =
          IF newest_sample.quality # 0 THEN -1
          ELSE IF badSince = -1 THEN time_delayed_us ELSE badSince
    /\ goodAt' = IF newest_sample.quality # 0 THEN time_delayed_us ELSE goodAt
    /\ dropout' =
          IF range_data_ready \/ time_delayed_us - now # DtUpdateUs
             THEN 0 ELSE dropout + 1

\* section 4.6, step 1, then the rest
runChecks(time_delayed_us, R_to_earth) ==
    /\ time_delayed_us > now
    /\ R_rng_to_earth_2_2' = SensorToEarth(R_to_earth)
    /\ UNCHANGED << newest_sample, range_sample_delayed, range_data_ready,
                    tilt, sin_tilt_rng, cos_tilt_rng, rng_valid_min_val,
                    rng_valid_max_val, range_cos_max_tilt >>
    /\ updateRangeDataValidity(time_delayed_us)
    /\ observe(time_delayed_us)
    /\ now' = time_delayed_us
    /\ lastOp' = "runChecks"
    /\ nChecks' = nChecks + 1
    /\ lastArg' = << time_delayed_us, R_to_earth >>
    /\ UNCHANGED cfgTilt

----------------------------------------------------------------------------
(* The estimator's calls on the public interface, in any order *)

Next ==
    \/ \E s \in Samples({now}, {500}, Qualities) : setNewestSample(s)
    \/ \E s \in Samples({now}, {500}, {100}) : setDelayedSample(s)
    \/ setTilt(Tilt30, RangeCosMaxTiltDefault)
    \/ \E l \in Limits : setLimits(l[1], l[2])
    \/ setDelayedRng(530)
    \/ \E b \in BOOLEAN : setDataReadiness(b)
    \/ \E b \in BOOLEAN : setValidity(b)
    \/ \E s \in Samples({now}, {40}, {0}) : writeSampleDelayed(s)
    \/ /\ nChecks < MaxChecks
       /\ runChecks(now + SampleCadenceUs, LevelRotation)

Spec == Init /\ [][Next]_vars

(* The fusion cycle with every gate's inputs varied *)

NextGates ==
    \/ \E s \in Samples({0}, {500}, Qualities) : setNewestSample(s)
    \/ \E s \in Samples({0}, {40, 500, 3100}, {100}) : setDelayedSample(s)
    \/ \E p \in TiltConfigs : setTilt(p[1], p[2])
    \/ \E l \in Limits : setLimits(l[1], l[2])
    \/ setDataReadiness(FALSE)
    \/ /\ nChecks < MaxGateChecks
       /\ \E d \in TimeSteps, R \in Rotations : runChecks(now + d, R)

SpecGates == Init /\ [][NextGates]_vars

(* Readings at the sample cadence, level attitude, good quality *)

NextStuck ==
    \/ \E s \in Samples({0}, {500}, {100}) : setNewestSample(s)
    \/ \E s \in Samples({0}, Distances, {100}) : setDelayedSample(s)
    \/ \E a \in TiltAngles : setTilt(a, RangeCosMaxTiltDefault)
    \/ \E l \in Limits : setLimits(l[1], l[2])
    \/ setDataReadiness(FALSE)
    \/ /\ nChecks < MaxStuckChecks
       /\ runChecks(now + SampleCadenceUs, LevelRotation)

SpecStuck == Init /\ [][NextStuck]_vars

(* The sensor falls silent: runChecks once per cycle of DtUpdateUs on a    *)
(* configured sensor, samples at their cadence during the first cycles and *)
(* again once continuity is lost                                           *)

Configured ==
    /\ rng_valid_max_val > 0
    /\ cfgTilt # -1
    /\ newest_sample.quality # 0

NextDropout ==
    \/ \E s \in Samples({0}, {500}, {100}) : setNewestSample(s)
    \/ /\ now % SampleCadenceUs = 0
       /\ nChecks < MaxDeliverChecks \/ ~isRangeDataContinuous
       /\ \E s \in Samples({0}, {500}, {100}) : setDelayedSample(s)
    \/ setTilt(Tilt30, RangeCosMaxTiltDefault)
    \/ \E l \in Limits : setLimits(l[1], l[2])
    \/ setDataReadiness(FALSE)
    \/ /\ nChecks < MaxDropoutChecks
       /\ Configured
       /\ runChecks(now + DtUpdateUs, LevelRotation)

SpecDropout == Init /\ [][NextDropout]_vars

----------------------------------------------------------------------------
(* Properties *)

\* the state is the one a runChecks call produced
AfterRunChecks == lastOp = "runChecks"

\* the five gates of section 4.6, step 5, read off the state after runChecks
GateBounds ==
    /\ range_sample_delayed.rng >= rng_valid_min_val
    /\ range_sample_delayed.rng <= rng_valid_max_val

GateTilt == R_rng_to_earth_2_2 > range_cos_max_tilt

GateContinuity == dt_last_range_update_filt_us < 2000000

GateNotStuck == ~is_stuck

GateQuality ==
    \/ newest_sample.quality # 0
    \/ now - time_bad_rng_signal_quality < 1000000

\* C1: after every runChecks call isHealthy() is true exactly when the
\* delayed distance is within [min, max], the effective cosine exceeds the
\* max-tilt cosine, the filtered interval is below 2,000,000 us, the sensor
\* is not stuck and the quality check passes.
C1_HealthyIffAllGates ==
    AfterRunChecks =>
        (isHealthy <=> ( /\ GateBounds /\ GateTilt /\ GateContinuity
                         /\ GateNotStuck /\ GateQuality ))

\* C1 witness: runChecks has run with data not ready and every gate passing.
C1_Witness ==
    /\ AfterRunChecks
    /\ ~range_data_ready
    /\ GateBounds /\ GateTilt /\ GateContinuity /\ GateNotStuck /\ GateQuality
    /\ isHealthy

\* C2: a delayed distance strictly between min and max, tilt configured as
\* zero by setTilt(0, max_tilt_cosine), a level rotation matrix, continuity,
\* quality and variation in order: isHealthy() is true after runChecks.
C2_LevelZeroTiltHealthy ==
    ( /\ AfterRunChecks
      /\ cfgTilt = 0
      /\ lastArg[2] = LevelRotation
      /\ range_cos_max_tilt < CosScale
      /\ range_sample_delayed.rng > rng_valid_min_val
      /\ range_sample_delayed.rng < rng_valid_max_val
      /\ newest_sample.quality # 0
      /\ GateContinuity /\ GateNotStuck )
    => isHealthy

\* C3: a runChecks call on a delayed distance below min or above max leaves
\* isHealthy() false and the stuck window and the stuck flag as they were.
C3_OutOfBoundsInvalidWindowKept ==
    [][ ( /\ lastOp' = "runChecks"
          /\ now' > now
          /\ \/ range_sample_delayed.rng < rng_valid_min_val
             \/ range_sample_delayed.rng > rng_valid_max_val )
        => ( /\ ~isHealthy'
             /\ rng_stuck_min_val' = rng_stuck_min_val
             /\ rng_stuck_max_val' = rng_stuck_max_val
             /\ is_stuck' = is_stuck ) ]_vars

\* C3 witness: runChecks has run on a ready reading above max while the
\* window holds an earlier reading and the other four gates pass.
C3_Witness ==
    /\ AfterRunChecks
    /\ range_data_ready
    /\ range_sample_delayed.rng > rng_valid_max_val
    /\ rng_stuck_min_val = 500 /\ rng_stuck_max_val = 500
    /\ GateTilt /\ GateContinuity /\ GateNotStuck /\ GateQuality
    /\ ~isHealthy

\* C4: after a runChecks call in which the effective cosine is less than or
\* equal to the max-tilt cosine, isTiltOk() and isHealthy() are false.
C4_TiltAtOrBelowLimitInvalid ==
    (AfterRunChecks /\ R_rng_to_earth_2_2 <= range_cos_max_tilt)
        => (~isTiltOk /\ ~isHealthy)

\* C4 witness: the effective cosine equals the max-tilt cosine and the other
\* four gates pass.
C4_Witness ==
    /\ AfterRunChecks
    /\ R_rng_to_earth_2_2 = range_cos_max_tilt
    /\ GateBounds /\ GateContinuity /\ GateNotStuck /\ GateQuality
    /\ ~isTiltOk /\ ~isHealthy

\* C5: with no ready sample while runChecks runs once per cycle, once the
\* cycles span more than 2 s the filtered interval is at least 2,000,000 us,
\* continuity is false and isDelayedHealthyData() is false; an interval of
\* 2,000,000 us or more is never continuous, and continuity comes back only
\* in a runChecks call on ready data that brings the interval below
\* 2,000,000 us.
C5_DropoutBreaksContinuity ==
    [][ /\ (dropout' * 10000 > 2000000) =>
              ( /\ dt_last_range_update_filt_us' >= 2000000
                /\ ~isDelayedHealthyData'
                /\ ~isHealthy' )
        /\ (dt_last_range_update_filt_us' >= 2000000) => ~isRangeDataContinuous'
        /\ (~isRangeDataContinuous /\ isRangeDataContinuous') =>
              ( /\ lastOp' = "runChecks"
                /\ range_data_ready
                /\ dt_last_range_update_filt_us' < 2000000 ) ]_vars

\* C5 witness: more than 2 s of cycles after the last ready sample; the
\* delayed distance is still in bounds and only continuity fails.
C5_Witness ==
    /\ AfterRunChecks
    /\ dropout * 10000 > 2000000
    /\ time_last_rng_ready > 0
    /\ range_sample_delayed.rng = 500
    /\ GateBounds /\ GateTilt /\ GateNotStuck /\ GateQuality
    /\ ~isRangeDataContinuous
    /\ ~isDelayedHealthyData

\* C6: on a freshly constructed sensor, when every runChecks so far has
\* taken a ready reading within [0.5, 30] and the two or more readings span
\* less than 0.1, isStuck() is true and isHealthy() is false.
C6_SteadyReadingsStuck ==
    ( /\ AfterRunChecks
      /\ streak.n >= 2
      /\ streak.lo >= 50 /\ streak.hi <= 3000
      /\ streak.hi - streak.lo < 10 )
    => (isStuck /\ ~isHealthy)

\* C6 witness: five readings of 5.0 at the 100 ms cadence, level attitude.
C6_Witness ==
    /\ AfterRunChecks
    /\ streak = [n |-> 5, lo |-> 500, hi |-> 500]
    /\ now = 500000
    /\ lastArg[2] = LevelRotation
    /\ newest_sample.quality = 100
    /\ isStuck /\ ~isHealthy

\* C7: when the sensor is stuck, a runChecks call on a ready in-bounds
\* reading that widens the window beyond 0.1 clears the stuck flag, resets
\* the window to that reading and, with tilt, continuity and quality
\* passing, leaves isHealthy() true.
C7_WideReadingUnsticks ==
    [][ ( /\ isStuck
          /\ lastOp' = "runChecks"
          /\ now' > now
          /\ range_data_ready
          /\ range_sample_delayed.rng >= rng_valid_min_val
          /\ range_sample_delayed.rng <= rng_valid_max_val
          /\ Max2(rng_stuck_max_val, range_sample_delayed.rng)
               - Min2(rng_stuck_min_val, range_sample_delayed.rng) > 10 )
        => ( /\ ~isStuck'
             /\ rng_stuck_min_val' = range_sample_delayed.rng
             /\ rng_stuck_max_val' = range_sample_delayed.rng
             /\ (GateTilt' /\ GateContinuity' /\ GateQuality') => isHealthy' ) ]_vars

\* C7 witness: the sixth reading, 5.3, follows five readings from 5.0 up.
C7_Witness ==
    /\ AfterRunChecks
    /\ streak = [n |-> 6, lo |-> 500, hi |-> 530]
    /\ range_sample_delayed.rng = 530
    /\ rng_stuck_min_val = 530 /\ rng_stuck_max_val = 530
    /\ ~isStuck /\ isHealthy

C9_HealthyDataPredicatesAgree ==
    /\ isNewHealthyData = isDelayedHealthyData
    /\ isNewHealthyData = (range_data_ready /\ isHealthy)

\* C9 witness: readiness cleared after a runChecks that found the sensor
\* healthy.
C9_Witness ==
    /\ lastOp = "setDataReadiness"
    /\ nChecks > 0
    /\ GateBounds /\ GateTilt /\ GateContinuity /\ GateNotStuck
    /\ ~range_data_ready
    /\ isHealthy
    /\ ~isNewHealthyData /\ ~isDelayedHealthyData

\* C10 as stated: data-ready goes from false to true only in a
\* setDelayedSample call.
C10_OnlySetDelayedSampleSetsReady ==
    [][ (~range_data_ready /\ range_data_ready')
        => lastOp' = "setDelayedSample" ]_vars

\* C10 amended: setDelayedSample(s) leaves the delayed slot equal to s and
\* data-ready true; data-ready goes from false to true only in a
\* setDelayedSample call or a setDataReadiness(true) call.
C10_ReadySetBySampleOrSetter ==
    [][ /\ (lastOp' = "setDelayedSample") =>
              (range_sample_delayed' = lastArg'[1] /\ range_data_ready')
        /\ (~range_data_ready /\ range_data_ready') =>
              \/ lastOp' = "setDelayedSample"
              \/ lastOp' = "setDataReadiness" /\ lastArg'[1] = TRUE ]_vars

\* C10 witness: setDelayedSample has replaced a slot written through the
\* handle and set data-ready after it was cleared.
C10_Witness ==
    /\ lastOp = "setDelayedSample"
    /\ nChecks > 0
    /\ range_sample_delayed = lastArg[1]
    /\ range_sample_delayed.rng = 500
    /\ range_data_ready

\* C11: data-ready is never reset automatically: it goes from true to false
\* only in a setDataReadiness(false) call, and stays true across runChecks
\* calls and every other setter, so isDelayedHealthyData() keeps reporting
\* the delayed sample as ready on the following cycles.
C11_ReadyClearedOnlyExplicitly ==
    [][ /\ (range_data_ready /\ ~range_data_ready') =>
              (lastOp' = "setDataReadiness" /\ lastArg'[1] = FALSE)
        /\ (range_data_ready /\ lastOp' = "runChecks" /\ now' > now) =>
              (range_data_ready' /\ isDelayedHealthyData' = isHealthy') ]_vars

\* C11 witness: the sample delivered before the first runChecks is still
\* reported as ready and healthy after the second runChecks.
C11_Witness ==
    /\ AfterRunChecks
    /\ nChecks = 2
    /\ range_sample_delayed.time_us = 0
    /\ range_data_ready
    /\ isDelayedHealthyData

\* C12: setDelayedSample(s), setDelayedRng(d) and a write through the handle
\* of getSampleDelayedAddress() act on one slot: after each of them
\* getDelayedRng() and a read through the handle return the distance just
\* written, and no other call changes that distance.
C12_DelayedRngRoundTrip ==
    [][ /\ getSampleDelayedAddress.rng' = getDelayedRng'
        /\ (lastOp' = "setDelayedSample") => getDelayedRng' = lastArg'[1].rng
        /\ (lastOp' = "setDelayedRng") => getDelayedRng' = lastArg'[1]
        /\ (lastOp' = "writeSampleDelayed") => getDelayedRng' = lastArg'[1].rng
        /\ (lastOp' \notin {"setDelayedSample", "setDelayedRng",
                            "writeSampleDelayed"})
              => getDelayedRng' = getDelayedRng ]_vars

\* C12 witness: a sample written through the handle after the first
\* runChecks, its distance replaced by setDelayedRng, is read back after a
\* later setLimits call.
C12_Witness ==
    /\ lastOp = "setLimits"
    /\ getSampleDelayedAddress = [time_us |-> SampleCadenceUs, rng |-> 530, quality |-> 0]
    /\ getDelayedRng = 530

C14_HealthyImpliesReady == isHealthy => range_data_ready

\* C14 amended: isNewHealthyData() and isDelayedHealthyData() imply
\* data-ready; the validity flag changes only in a runChecks or a
\* setValidity call, so isHealthy() keeps its value when data-ready is set
\* or cleared.
C14_ValidityLatchedApartFromReady ==
    [][ /\ isNewHealthyData' => range_data_ready'
        /\ isDelayedHealthyData' => range_data_ready'
        /\ (isHealthy' # isHealthy) => lastOp' \in {"runChecks", "setValidity"}
        /\ (lastOp' \in {"setDataReadiness", "setDelayedSample"})
              => isHealthy' = isHealthy ]_vars

\* C14 witness: data-ready cleared after the first runChecks found the
\* sensor healthy; isHealthy() is still true.
C14_Witness ==
    /\ lastOp = "setDataReadiness"
    /\ lastArg = << FALSE >>
    /\ nChecks = 1
    /\ range_sample_delayed.rng = 500
    /\ rng_valid_min_val = 50 /\ rng_valid_max_val = 3000
    /\ GateTilt
    /\ isHealthy
    /\ ~range_data_ready

\* continuity, stuck and quality state of the sensor
ChecksState ==
    << dt_last_range_update_filt_us, time_last_rng_ready, is_stuck,
       rng_stuck_min_val, rng_stuck_max_val, time_bad_rng_signal_quality >>

\* the same state after a runChecks call at time t, from the state before the
\* call; neither the rotation matrix nor the tilt check enters
ChecksStateAfter(t) ==
    LET rng    == range_sample_delayed.rng
        accept == /\ range_data_ready
                  /\ rng >= rng_valid_min_val /\ rng <= rng_valid_max_val
        lo     == IF rng < rng_stuck_min_val THEN rng ELSE rng_stuck_min_val
        hi     == IF rng > rng_stuck_max_val THEN rng ELSE rng_stuck_max_val
    IN  << IF range_data_ready
              THEN (dt_last_range_update_filt_us + (t - time_last_rng_ready)) \div 2
              ELSE dt_last_range_update_filt_us + 10000,
           IF range_data_ready THEN t ELSE time_last_rng_ready,
           IF ~accept THEN is_stuck
              ELSE IF hi - lo > 10 THEN FALSE
              ELSE IF hi - lo < 10 THEN TRUE ELSE is_stuck,
           IF ~accept THEN rng_stuck_min_val
              ELSE IF hi - lo > 10 THEN rng ELSE lo,
           IF ~accept THEN rng_stuck_max_val
              ELSE IF hi - lo > 10 THEN rng ELSE hi,
           IF newest_sample.quality # 0 THEN t ELSE time_bad_rng_signal_quality >>

\* C15: runChecks does not short-circuit: the filtered interval, the
\* last-ready time, the stuck flag, the stuck window and the bad-quality
\* timer after a runChecks call are determined by the state before the call
\* and the time alone, the same whatever rotation matrix was passed and
\* whether or not the tilt check failed.
C15_ChecksIndependentOfTilt ==
    [][ (lastOp' = "runChecks" /\ now' > now)
        => ChecksState' = ChecksStateAfter(now') ]_vars

\* C15 witness: the tilt check fails in the second runChecks, which takes a
\* ready reading, declares the sensor stuck and moves the last-ready time
\* and the bad-quality timer.
C15_Witness ==
    /\ AfterRunChecks
    /\ nChecks = 2
    /\ ~isTiltOk
    /\ range_data_ready
    /\ is_stuck
    /\ rng_stuck_min_val = 500 /\ rng_stuck_max_val = 500
    /\ time_last_rng_ready = now
    /\ time_bad_rng_signal_quality = now

\* C16: a runChecks call with data-ready false, the delayed slot still
\* holding an in-bounds reading, leaves the stuck window and the stuck flag
\* as they were: the old distance never widens or resets the window and
\* never turns isStuck() from false to true.
C16_DropoutFreezesStuckWindow ==
    [][ ( /\ lastOp' = "runChecks"
          /\ now' > now
          /\ ~range_data_ready
          /\ range_sample_delayed.rng >= rng_valid_min_val
          /\ range_sample_delayed.rng <= rng_valid_max_val )
        => ( /\ rng_stuck_min_val' = rng_stuck_min_val
             /\ rng_stuck_max_val' = rng_stuck_max_val
             /\ isStuck' = isStuck ) ]_vars

\* C16 witness: more than 200 cycles after the only reading, 5.0, the window
\* is still that reading alone and the sensor is not stuck.
C16_Witness ==
    /\ AfterRunChecks
    /\ dropout > 200
    /\ ~range_data_ready
    /\ range_sample_delayed.rng = 500
    /\ rng_valid_min_val = 50 /\ rng_valid_max_val = 3000
    /\ rng_stuck_min_val = 500 /\ rng_stuck_max_val = 500
    /\ ~isStuck

\* C17: in every reachable state, from construction onward, the stuck-window
\* min is less than or equal to the stuck-window max.
C17_StuckWindowOrdered == rng_stuck_min_val <= rng_stuck_max_val

\* C17 witness: the window was reset to 5.0, widened to [5.0, 5.1], and an
\* out-of-bounds reading of 31.0 has been checked since.
C17_Witness ==
    /\ AfterRunChecks
    /\ range_data_ready
    /\ range_sample_delayed.rng = 3100
    /\ rng_stuck_min_val = 500
    /\ rng_stuck_max_val = 510

\* C18: after any sequence of setTilt calls on a freshly constructed sensor
\* the cached sine and cosine are those of the tilt angle configured last,
\* a first call with tilt 0 (cosine 1, sine 0) and a return to tilt 0 after
\* a non-zero tilt included.
C18_CachedTrigOfConfiguredTilt ==
    (cfgTilt # -1) =>
        (sin_tilt_rng = sinf(cfgTilt) /\ cos_tilt_rng = cosf(cfgTilt))

\* a bool compared with a distance is promoted to 0.0 or 1.0
DistanceOfBool(b) == IF b THEN 100 ELSE 0

\* C19: after setLimits(min_distance, max_distance), getValidMinVal()
\* returns min_distance and getValidMaxVal() returns max_distance.
C19_LimitGettersReadBack ==
    (lastOp = "setLimits") =>
        /\ DistanceOfBool(getValidMinVal) = lastArg[1]
        /\ DistanceOfBool(getValidMaxVal) = lastArg[2]

\* the fields of the sensor other than the two samples and the two limits
FlagsTimersTilt ==
    << range_data_ready, rng_hgt_valid, is_stuck,
       dt_last_range_update_filt_us, time_last_rng_ready,
       time_bad_rng_signal_quality, rng_stuck_min_val, rng_stuck_max_val,
       tilt, sin_tilt_rng, cos_tilt_rng, R_rng_to_earth_2_2,
       range_cos_max_tilt >>

\* C20: setNewestSample, setDelayedSample, setDelayedRng, setLimits, setTilt
\* and setDataReadiness leave isHealthy() and isStuck() unchanged; validity
\* changes only in runChecks and setValidity; setNewestSample changes only
\* the newest sample, setDelayedRng only the delayed distance (not its
\* timestamp, its quality or data-ready), setLimits only the two limits.
C20_FlagsLatchedSettersFramed ==
    [][ /\ (lastOp' \in {"setNewestSample", "setDelayedSample", "setDelayedRng",
                         "setLimits", "setTilt", "setDataReadiness"})
              => (isHealthy' = isHealthy /\ isStuck' = isStuck)
        /\ (isHealthy' # isHealthy) => lastOp' \in {"runChecks", "setValidity"}
        /\ (lastOp' = "setNewestSample")
              => /\ newest_sample' = lastArg'[1]
                 /\ UNCHANGED << range_sample_delayed, rng_valid_min_val,
                                 rng_valid_max_val, FlagsTimersTilt >>
        /\ (lastOp' = "setDelayedRng")
              => /\ range_sample_delayed'.rng = lastArg'[1]
                 /\ range_sample_delayed'.time_us = range_sample_delayed.time_us
                 /\ range_sample_delayed'.quality = range_sample_delayed.quality
                 /\ UNCHANGED << newest_sample, rng_valid_min_val,
                                 rng_valid_max_val, FlagsTimersTilt >>
        /\ (lastOp' = "setLimits")
              => /\ rng_valid_min_val' = lastArg'[1]
                 /\ rng_valid_max_val' = lastArg'[2]
                 /\ UNCHANGED << newest_sample, range_sample_delayed,
                                 FlagsTimersTilt >> ]_vars

\* C20 witness: a runChecks call took the ready sample at 5.0 and found the
\* sensor healthy; setDelayedRng has since replaced the distance by 5.3, the
\* timestamp, the quality and data-ready kept, setLimits was called last,
\* and isHealthy() is still true.
C20_Witness ==
    /\ lastOp = "setLimits"
    /\ nChecks > 0
    /\ range_data_ready
    /\ range_sample_delayed = [time_us |-> 0, rng |-> 530, quality |-> 100]
    /\ rng_stuck_min_val = 500 /\ rng_stuck_max_val = 500
    /\ rng_valid_min_val = 50 /\ rng_valid_max_val = 3000
    /\ GateTilt
    /\ isHealthy
    /\ ~isStuck

====
